---- MODULE Spec2Model ----
(***************************************************************************)
(* Model of src/myfile.py: a Streamlit script that loads a ';'-delimited   *)
(* CSV of municipal waste statistics, and on every render pass filters it  *)
(* by department, computes the top-15 percent variation of GPC_DOM between *)
(* two selected years and renders four views (bar, pie, scatter, line).    *)
(*                                                                         *)
(* Text is a sequence of one-character strings, so that the cleaning steps *)
(* of load_data (unidecode, upper, strip, replace, to_numeric) are         *)
(* computed character by character.  A floating-point number is modelled   *)
(* as an exact fraction [n, d] in lowest terms with d > 0; rounding of     *)
(* IEEE doubles, infinities and NaN results are not modelled.  Line 92 of  *)
(* the script (a heading that lost its comment sign) is read as a comment. *)
(***************************************************************************)
EXTENDS Integers, Sequences, FiniteSets, TLC

(***************************************************************************)
(* Bounds of the model.                                                    *)
(***************************************************************************)
\* longest raw metric cell of the cell-by-cell loader files
MaxLen == 4
\* most rows of the exhaustively enumerated small files
MaxRows == 3
\* most districts of the one-row-per-district-and-year files
MaxDistritos == 17
\* most repeated rows of one district in one year
MaxDup == 4
\* merged tables up to this length get every tie order of the unstable sort
MaxPerm == 3

\* src/myfile.py:200  .head(15)
TopN == 15

(***************************************************************************)
(* Numbers: exact fractions.                                               *)
(***************************************************************************)
Abs(x) == IF x < 0 THEN -x ELSE x
RECURSIVE Gcd(_, _)
Gcd(a, b) == IF b = 0 THEN a ELSE Gcd(b, a % b)
\* the fraction n / d, d > 0, in lowest terms
Num(n, d) == LET g == Gcd(Abs(n), d) IN [n |-> n \div g, d |-> d \div g]
Zero == Num(0, 1)
IsZero(a) == a.n = 0
NumLe(a, b) == a.n * b.d <= b.n * a.d
NumLt(a, b) == a.n * b.d < b.n * a.d
\* a - b
NumSub(a, b) == Num(a.n * b.d - b.n * a.d, a.d * b.d)
\* a / b, b # 0; the denominator is kept positive
NumDiv(a, b) == IF b.n > 0 THEN Num(a.n * b.d, a.d * b.n)
                           ELSE Num(-(a.n * b.d), a.d * (-b.n))
\* a * k for an integer k
NumScale(a, k) == Num(a.n * k, a.d)

RECURSIVE Pow10(_)
Pow10(k) == IF k = 0 THEN 1 ELSE 10 * Pow10(k - 1)

(***************************************************************************)
(* Text helpers (pandas .str accessors and unidecode).                     *)
(***************************************************************************)
LowerLetters == <<"a", "b", "c", "d", "e", "i", "l", "m", "o", "s", "u">>
UpperLetters == <<"A", "B", "C", "D", "E", "I", "L", "M", "O", "S", "U">>
Accented   == <<"á", "é", "í", "ó", "ú", "Á", "É", "Í", "Ó", "Ú">>
Unaccented == <<"a", "e", "i", "o", "u", "A", "E", "I", "O", "U">>

\* unidecode.unidecode on one character: the accent is dropped
UnidecodeChar(c) ==
    IF \E i \in 1..Len(Accented) : Accented[i] = c
    THEN Unaccented[CHOOSE i \in 1..Len(Accented) : Accented[i] = c]
    ELSE c

\* str.upper on one character
UpperChar(c) ==
    IF \E i \in 1..Len(LowerLetters) : LowerLetters[i] = c
    THEN UpperLetters[CHOOSE i \in 1..Len(LowerLetters) : LowerLetters[i] = c]
    ELSE c

\* .apply(unidecode.unidecode) and .str.upper() on a text
Unidecode(s) == [i \in 1..Len(s) |-> UnidecodeChar(s[i])]
Upper(s) == [i \in 1..Len(s) |-> UpperChar(s[i])]

\* str.strip(): leading and trailing blanks removed
RECURSIVE LStrip(_)
LStrip(s) == IF s # <<>> /\ Head(s) = " " THEN LStrip(Tail(s)) ELSE s
RECURSIVE RStrip(_)
RStrip(s) ==
    IF s # <<>> /\ s[Len(s)] = " " THEN RStrip(SubSeq(s, 1, Len(s) - 1)) ELSE s
Strip(s) == RStrip(LStrip(s))

\* str.replace(old, new, regex=False) for a one-character old; new is a text
RECURSIVE StrReplace(_, _, _)
StrReplace(s, old, new) ==
    IF s = <<>> THEN <<>>
    ELSE (IF Head(s) = old THEN new ELSE <<Head(s)>>) \o StrReplace(Tail(s), old, new)

(***************************************************************************)
(* Numeric parsing.                                                        *)
(***************************************************************************)
DigitChars == <<"0", "1", "2", "3", "4", "5", "6", "7", "8", "9">>
DigitSet == {DigitChars[i] : i \in 1..10}
IsDigit(c) == c \in DigitSet
DigitVal(c) == (CHOOSE i \in 1..10 : DigitChars[i] = c) - 1

\* the digits of s read as a decimal integer, other characters skipped
RECURSIVE DigitsValue(_, _)
DigitsValue(s, acc) ==
    IF s = <<>> THEN acc
    ELSE IF IsDigit(Head(s)) THEN DigitsValue(Tail(s), 10 * acc + DigitVal(Head(s)))
    ELSE DigitsValue(Tail(s), acc)

CountChar(s, c) == Cardinality({i \in 1..Len(s) : s[i] = c})
CountDigits(s) == Cardinality({i \in 1..Len(s) : IsDigit(s[i])})

\* int(x) of a text cell of the year column: defined on digit strings
IsIntText(s) == s # <<>> /\ \A i \in 1..Len(s) : IsDigit(s[i])
AsInt(s) == DigitsValue(s, 0)

\* pd.to_numeric(..., errors='coerce') on one text: [nan |-> TRUE] when the
\* text is no decimal literal ([-]digits[.digits] with at least one digit)
NaN == [nan |-> TRUE]
ToNumeric(s) ==
    LET neg  == s # <<>> /\ Head(s) = "-"
        body == IF neg THEN Tail(s) ELSE s
        dots == CountChar(body, ".")
        ok   == /\ \A i \in 1..Len(body) : IsDigit(body[i]) \/ body[i] = "."
                /\ dots <= 1
                /\ CountDigits(body) >= 1
        dot  == IF dots = 1 THEN CHOOSE i \in 1..Len(body) : body[i] = "."
                ELSE Len(body)
        mant == DigitsValue(body, 0)
    IN  IF ok
        THEN [nan |-> FALSE, n |-> IF neg THEN -mant ELSE mant,
              d |-> Pow10(Len(body) - dot)]
        ELSE NaN

\* .fillna(0)
FillNa(v) == IF v.nan THEN Zero ELSE Num(v.n, v.d)

\* src/myfile.py:34-35, one cell of a metric column
CleanMetric(s) ==
    FillNa(ToNumeric(StrReplace(StrReplace(s, ",", <<".">>), " ", <<>>)))

\* src/myfile.py:26
CleanDepartamento(s) == Upper(Unidecode(s))
\* src/myfile.py:27
CleanDistrito(s) == Strip(Upper(Unidecode(s)))

(***************************************************************************)
(* The input file: whether it exists, and its data rows as read by         *)
(* pd.read_csv(delimiter=';') under the fixed column set of the data set.  *)
(***************************************************************************)
RawRow(dep, dist, periodo, gpc, qdom, qnodom, qmun) ==
    [DEPARTAMENTO |-> dep, DISTRITO |-> dist, PERIODO |-> periodo,
     GPC_DOM |-> gpc, QRESIDUOS_DOM |-> qdom, QRESIDUOS_NO_DOM |-> qnodom,
     QRESIDUOS_MUN |-> qmun]

MetricCols == {"GPC_DOM", "QRESIDUOS_DOM", "QRESIDUOS_NO_DOM", "RESIDUOS_MUNICIPALES"}

\* src/myfile.py:21-35 on one row
CleanRow(r) ==
    [DEPARTAMENTO         |-> CleanDepartamento(r.DEPARTAMENTO),
     DISTRITO             |-> CleanDistrito(r.DISTRITO),
     ANIO                 |-> AsInt(r.PERIODO),
     GPC_DOM              |-> CleanMetric(r.GPC_DOM),
     QRESIDUOS_DOM        |-> CleanMetric(r.QRESIDUOS_DOM),
     QRESIDUOS_NO_DOM     |-> CleanMetric(r.QRESIDUOS_NO_DOM),
     RESIDUOS_MUNICIPALES |-> CleanMetric(r.QRESIDUOS_MUN)]

\* the table a loader without the all-or-nothing try block would keep: the
\* rows cleaned before the first one that raises
load_data_partial(f) ==
    IF ~f.exists THEN [error |-> TRUE, df |-> <<>>]
    ELSE LET bad == {i \in 1..Len(f.rows) : ~IsIntText(f.rows[i].PERIODO)}
             upto == IF bad = {} THEN Len(f.rows)
                     ELSE (CHOOSE i \in bad : \A j \in bad : i <= j) - 1
         IN  [error |-> bad # {}, df |-> [i \in 1..upto |-> CleanRow(f.rows[i])]]

\* the statements of the try block that raise: read_csv on a missing file,
\* astype(int) on a year cell that is no integer
LoadRaises(f) ==
    \/ ~f.exists
    \/ \E i \in 1..Len(f.rows) : ~IsIntText(f.rows[i].PERIODO)

\* src/myfile.py:16-40: the table, or the empty table with the error shown
load_data(f) ==
    IF LoadRaises(f)
    THEN [error |-> TRUE, df |-> <<>>]
    ELSE [error |-> FALSE, df |-> [i \in 1..Len(f.rows) |-> CleanRow(f.rows[i])]]

(***************************************************************************)
(* Queries on the loaded table.                                            *)
(***************************************************************************)
Min(a, b) == IF a <= b THEN a ELSE b

\* df['DEPARTAMENTO'].unique()
Departamentos(df) == {df[i].DEPARTAMENTO : i \in 1..Len(df)}
\* df_all[df_all['DEPARTAMENTO'] == departamento_seleccionado]
FiltrarDepartamento(df, dep) == SelectSeq(df, LAMBDA r : r.DEPARTAMENTO = dep)
\* df['AÑO'].unique()
Anios(df) == {df[i].ANIO : i \in 1..Len(df)}
\* df['DISTRITO'].unique()
Distritos(df) == {df[i].DISTRITO : i \in 1..Len(df)}

(***************************************************************************)
(* The top-15 variation calculation, src/myfile.py:191-201.                *)
(***************************************************************************)
\* df[df['AÑO'] == year][['DISTRITO', 'GPC_DOM']]
YearSlice(df, year) ==
    LET rows == SelectSeq(df, LAMBDA r : r.ANIO = year)
    IN  [i \in 1..Len(rows) |-> [DISTRITO |-> rows[i].DISTRITO, GPC |-> rows[i].GPC_DOM]]

\* the rows of the right table that match one left row, in the right order
MatchRows(l, right) ==
    LET hits == SelectSeq(right, LAMBDA r : r.DISTRITO = l.DISTRITO)
    IN  [i \in 1..Len(hits) |->
            [DISTRITO |-> l.DISTRITO, GPC_Start |-> l.GPC, GPC_End |-> hits[i].GPC]]

\* pd.merge(df_start, df_end, on='DISTRITO', how='inner'): one row for every
\* pair of a left and a right row of the same district, in the left order
RECURSIVE Merge(_, _)
Merge(left, right) ==
    IF left = <<>> THEN <<>>
    ELSE MatchRows(Head(left), right) \o Merge(Tail(left), right)

\* an exclusion that looks at the end value only
DropZerosEndOnly(df) == SelectSeq(df, LAMBDA r : ~IsZero(r.GPC_End))

\* replace(0, pd.NA) and dropna(subset=['GPC_Start', 'GPC_End'])
DropZeros(df) ==
    SelectSeq(df, LAMBDA r : ~IsZero(r.GPC_Start) /\ ~IsZero(r.GPC_End))

\* ((GPC_End - GPC_Start) / GPC_Start) * 100
Incremento(r) == NumScale(NumDiv(NumSub(r.GPC_End, r.GPC_Start), r.GPC_Start), 100)

\* df_merged['Incremento %'] = ...
WithIncremento(df) ==
    [i \in 1..Len(df) |->
        [Distrito |-> df[i].DISTRITO, Incremento |-> Incremento(df[i]),
         GPC_Start |-> df[i].GPC_Start, GPC_End |-> df[i].GPC_End]]

\* one insertion of index i into the ascending index list p; with after = TRUE
\* it goes behind the keys equal to its own, otherwise in front of them
RECURSIVE InsertIdx(_, _, _, _)
InsertIdx(p, i, keys, after) ==
    IF p = <<>> THEN <<i>>
    ELSE IF (IF after THEN NumLt(keys[i], keys[Head(p)])
                      ELSE NumLe(keys[i], keys[Head(p)]))
         THEN <<i>> \o p
         ELSE <<Head(p)>> \o InsertIdx(Tail(p), i, keys, after)

RECURSIVE SortIdx(_, _, _, _)
SortIdx(keys, i, p, after) ==
    IF i > Len(keys) THEN p
    ELSE SortIdx(keys, i + 1, InsertIdx(p, i, keys, after), after)

IsAscending(p, keys) ==
    \A i \in 1..(Len(p) - 1) : NumLe(keys[p[i]], keys[p[i + 1]])

\* keys.argsort(kind='quicksort'): an ascending order of the indices.  The
\* kind is not stable, so the order of equal keys is not determined: every
\* order for a short array, and for a longer one the order that keeps equal
\* keys in place and the order that reverses them.
ArgsortOutcomes(keys) ==
    LET n == Len(keys)
    IN  IF n <= MaxPerm
        THEN {p \in [1..n -> 1..n] :
                 /\ \A i, j \in 1..n : i # j => p[i] # p[j]
                 /\ IsAscending(p, keys)}
        ELSE {SortIdx(keys, 1, <<>>, TRUE), SortIdx(keys, 1, <<>>, FALSE)}

\* the same sort with ascending=True
SortOutcomesAscending(df) ==
    LET n    == Len(df)
        keys == [i \in 1..n |-> df[i].Incremento]
    IN  {[i \in 1..n |-> df[p[i]]] : p \in ArgsortOutcomes(keys)}

\* sort_values('Incremento %', ascending=False): pandas' nargsort reverses
\* the keys, argsorts them ascending and reverses the result
SortOutcomes(df) ==
    LET n    == Len(df)
        keys == [i \in 1..n |-> df[n + 1 - i].Incremento]
    IN  {[i \in 1..n |-> df[n + 1 - p[n + 1 - i]]] : p \in ArgsortOutcomes(keys)}

\* .head(15)
HeadN(df) == SubSeq(df, 1, Min(Len(df), TopN))

\* df_merged before the 'Incremento %' column is added (lines 191-196)
DfMerged(df, start, end) == DropZeros(Merge(YearSlice(df, start), YearSlice(df, end)))

(***************************************************************************)
(* Input files of the model.                                               *)
(***************************************************************************)
LIMA  == <<"L", "I", "M", "A">>
Lima  == <<"L", "í", "m", "a">>
CUSCO == <<"C", "U", "S", "C", "O">>
Y2019 == <<"2", "0", "1", "9">>
Y2020 == <<"2", "0", "2", "0">>
Y2021 == <<"2", "0", "2", "1">>

\* a row whose three waste quantities are fixed
Row(dep, dist, periodo, gpc) ==
    RawRow(dep, dist, periodo, gpc, <<"3", ",", "5">>, <<"1">>, <<"4", ",", "5">>)

File(rows) == [exists |-> TRUE, rows |-> rows]
AbsentFile == [exists |-> FALSE, rows |-> <<>>]

\* a file with a year cell that is no integer
BadYearFiles ==
    {File(<<Row(LIMA, <<"A">>, Y2019, <<"1", "0">>), Row(LIMA, <<"A">>, y, <<"2", "0">>)>>) :
        y \in {<<"x">>, <<>>, <<"2", "0", "2", "x">>}}

\* every file of at most MaxRows rows over a small set of rows; "á " and "A"
\* are two raw names of one district
SmallRows ==
    {Row(LIMA, dist, y, gpc) :
        dist \in {<<"A">>, <<"á", " ">>, <<"B">>},
        y \in {Y2019, Y2020},
        gpc \in {<<"0">>, <<"1", "0">>}}
IsSmallFile(f) == \E m \in 0..MaxRows : \E rows \in [1..m -> SmallRows] : f = File(rows)

\* files of n districts with one row per district and year: the rows of 2019
\* first, then those of 2020 in the same or in the reverse order of districts;
\* departments and values repeat cyclically along the districts
NameLetters == <<"A", "B", "C", "D", "E">>
DistritoName(i) == <<NameLetters[((i - 1) \div 5) + 1], NameLetters[((i - 1) % 5) + 1]>>
Cyc(pat, i) == pat[((i - 1) % Len(pat)) + 1]

WideSizes == {2} \cup ((MaxDistritos - 2)..MaxDistritos)
DepPatterns == {<<LIMA>>, <<LIMA, Lima, CUSCO>>}
StartPatterns ==
    {<<<<"1", "0">>>>,
     <<<<"1", "0">>, <<"0">>>>,
     <<<<"1", "0", "0">>, <<"5", "0">>, <<"1", "0">>>>}
EndPatterns ==
    {<<<<"2", "0">>>>,
     <<<<"2", "0">>, <<"5">>>>,
     <<<<"1", "5", "0">>, <<"5", "0">>, <<"0">>, <<"1", "2", ",", "5">>>>}

WideRows(n, deps, starts, ends, reversed) ==
    [i \in 1..(2 * n) |->
        IF i <= n
        THEN Row(Cyc(deps, i), DistritoName(i), Y2019, Cyc(starts, i))
        ELSE LET j == IF reversed THEN 2 * n + 1 - i ELSE i - n
             IN  Row(Cyc(deps, j), DistritoName(j), Y2020, Cyc(ends, j))]

IsWideFile(f) ==
    \E n \in WideSizes, deps \in DepPatterns, starts \in StartPatterns,
       ends \in EndPatterns, reversed \in BOOLEAN :
        f = File(WideRows(n, deps, starts, ends, reversed))

\* files where district AA has k rows in 2019 and m rows in 2020, and district
\* AB one row in each year, before or after those of AA, and with or without
\* a last row of AB for 2021
DupRows(k, m, bEnd, bFirst, bThird) ==
    LET a == [i \in 1..(k + m) |->
                 IF i <= k THEN Row(LIMA, DistritoName(1), Y2019, <<"1", "0">>)
                 ELSE Row(LIMA, DistritoName(1), Y2020, <<"2", "0">>)]
        b == <<Row(LIMA, DistritoName(2), Y2019, <<"1", "0">>),
               Row(LIMA, DistritoName(2), Y2020, bEnd)>>
        c == IF bThird THEN <<Row(LIMA, DistritoName(2), Y2021, <<"5">>)>> ELSE <<>>
    IN  (IF bFirst THEN b \o a ELSE a \o b) \o c

IsDupFile(f) ==
    \E k \in 1..MaxDup, m \in 1..MaxDup,
       bEnd \in {<<"1", "0">>, <<"2", "0">>, <<"5", "0">>}, bFirst \in BOOLEAN,
       bThird \in BOOLEAN :
        f = File(DupRows(k, m, bEnd, bFirst, bThird))

\* the four rows of the end-to-end scenario
ExampleFile ==
    File(<<Row(LIMA, <<"A">>, Y2019, <<"1", "0", ",", "0">>),
           Row(LIMA, <<"A">>, Y2020, <<"2", "0", ",", "0">>),
           Row(LIMA, <<"B">>, Y2019, <<"0", ",", "0">>),
           Row(LIMA, <<"B">>, Y2020, <<"5", ",", "0">>)>>)

IsFile(f) ==
    \/ f \in {AbsentFile, ExampleFile} \cup BadYearFiles
    \/ IsSmallFile(f)
    \/ IsWideFile(f)
    \/ IsDupFile(f)

\* one-row files with every text of at most MaxLen characters in one metric
\* column
CellChars == {"0", "1", "2", "5", ",", ".", " ", "-", "x"}
CellRow(col, t) ==
    RawRow(LIMA, <<"A">>, Y2019,
           IF col = "GPC_DOM" THEN t ELSE <<"1">>,
           IF col = "QRESIDUOS_DOM" THEN t ELSE <<"1">>,
           IF col = "QRESIDUOS_NO_DOM" THEN t ELSE <<"1">>,
           IF col = "RESIDUOS_MUNICIPALES" THEN t ELSE <<"1">>)
IsCellFile(f) ==
    \/ f \in {AbsentFile} \cup BadYearFiles
    \/ \E col \in MetricCols : \E m \in 0..MaxLen : \E t \in [1..m -> CellChars] :
          f = File(<<CellRow(col, t)>>)

(***************************************************************************)
(* State.                                                                  *)
(***************************************************************************)
VARIABLES
    file,        \* the CSV file FILE_NAME
    df_all,      \* the table load_data returned
    pc,          \* the position of the script in its render pass
    shown,       \* what the pass has put on the page so far
    departamento_seleccionado,
    start_year,
    end_year,
    run_charts,
    df_plot_top15,
    div_by_zero, \* the variation divided by a start value of zero
    distrito_analisis_seleccionado,
    anio_analisis_seleccionado

vars == <<file, df_all, pc, shown, departamento_seleccionado, start_year, end_year,
          run_charts, df_plot_top15, div_by_zero, distrito_analisis_seleccionado,
          anio_analisis_seleccionado>>

\* a name not yet bound in this pass
Unset == <<"?">>
NoYear == 0

PassStart ==
    /\ df_all = <<>>
    /\ pc = "start"
    /\ shown = {}
    /\ departamento_seleccionado = Unset
    /\ start_year = NoYear
    /\ end_year = NoYear
    /\ run_charts = FALSE
    /\ df_plot_top15 = <<>>
    /\ div_by_zero = FALSE
    /\ distrito_analisis_seleccionado = Unset
    /\ anio_analisis_seleccionado = NoYear

Init == IsFile(file) /\ PassStart

df_filtrado_por_departamento == FiltrarDepartamento(df_all, departamento_seleccionado)
current_available_years == Anios(df_filtrado_por_departamento)

(***************************************************************************)
(* The render pass.                                                        *)
(***************************************************************************)
\* lines 159-161 and 284-285: load, and stop with an error on an empty table
LoadData ==
    /\ pc = "start"
    /\ LET r == load_data(file)
       IN  /\ df_all' = r.df
           /\ shown' = (IF r.error THEN {"error_load"} ELSE {})
                       \cup (IF r.df = <<>> THEN {"error_no_data"} ELSE {})
           /\ pc' = IF r.df = <<>> THEN "done" ELSE "sel_departamento"
    /\ UNCHANGED <<file, departamento_seleccionado, start_year, end_year, run_charts,
                   df_plot_top15, div_by_zero, distrito_analisis_seleccionado,
                   anio_analisis_seleccionado>>

\* lines 162-177: the department selector and the two-years check
SelectDepartamento ==
    /\ pc = "sel_departamento"
    /\ \E dep \in Departamentos(df_all) :
          /\ departamento_seleccionado' = dep
          /\ IF Cardinality(Anios(FiltrarDepartamento(df_all, dep))) < 2
             THEN /\ shown' = shown \cup {"sel_departamento", "error_two_years"}
                  /\ pc' = "gate"
             ELSE /\ shown' = shown \cup {"sel_departamento"}
                  /\ pc' = "sel_years"
    /\ run_charts' = FALSE
    /\ UNCHANGED <<file, df_all, start_year, end_year, df_plot_top15, div_by_zero,
                   distrito_analisis_seleccionado, anio_analisis_seleccionado>>

\* a check that lets equal years through
YearOrderInvalidStrict(s, e) == s > e

\* line 187: if start_year >= end_year
YearOrderInvalid(s, e) == s >= e

\* lines 179-203: the two year selectors, the order check and the variation
SelectYears ==
    /\ pc = "sel_years"
    /\ \E s \in current_available_years, e \in current_available_years :
          /\ start_year' = s
          /\ end_year' = e
          /\ IF YearOrderInvalid(s, e)
             THEN /\ shown' = shown \cup {"sel_years", "error_year_order"}
                  /\ UNCHANGED <<df_plot_top15, div_by_zero, run_charts>>
             ELSE LET merged == DfMerged(df_filtrado_por_departamento, s, e)
                  IN  /\ \E sorted \in SortOutcomes(WithIncremento(merged)) :
                            df_plot_top15' = HeadN(sorted)
                      /\ div_by_zero' = \E i \in 1..Len(merged) : IsZero(merged[i].GPC_Start)
                      /\ shown' = shown \cup {"sel_years", "variation"}
                      /\ run_charts' = TRUE
    /\ pc' = "gate"
    /\ UNCHANGED <<file, df_all, departamento_seleccionado,
                   distrito_analisis_seleccionado, anio_analisis_seleccionado>>

\* lines 205-211: the gate of all views, and the bar chart of the top 15
Gate ==
    /\ pc = "gate"
    /\ IF run_charts
       THEN shown' = shown \cup {"bar"} /\ pc' = "pie"
       ELSE shown' = shown /\ pc' = "done"
    /\ UNCHANGED <<file, df_all, departamento_seleccionado, start_year, end_year,
                   run_charts, df_plot_top15, div_by_zero,
                   distrito_analisis_seleccionado, anio_analisis_seleccionado>>

\* a filter that forgets the year
datos_filtrados_sin_anio(df, dep, dist, anio) ==
    SelectSeq(df, LAMBDA r : r.DEPARTAMENTO = dep /\ r.DISTRITO = dist)

\* create_pie_chart_and_metrics, lines 97-101: the rows of the selection
datos_filtrados(df, dep, dist, anio) ==
    SelectSeq(df, LAMBDA r : r.DEPARTAMENTO = dep /\ r.DISTRITO = dist /\ r.ANIO = anio)

\* lines 217-237 and 94-157: the detail selectors, then the pie chart with its
\* metrics or the warning
PieView ==
    /\ pc = "pie"
    /\ \E dist \in Distritos(df_filtrado_por_departamento),
          anio \in current_available_years :
          /\ distrito_analisis_seleccionado' = dist
          /\ anio_analisis_seleccionado' = anio
          /\ IF datos_filtrados(df_filtrado_por_departamento,
                                departamento_seleccionado, dist, anio) # <<>>
             THEN shown' = shown \cup {"pie", "metrics"}
             ELSE shown' = shown \cup {"pie_warning"}
    /\ pc' = "scatter"
    /\ UNCHANGED <<file, df_all, departamento_seleccionado, start_year, end_year,
                   run_charts, df_plot_top15, div_by_zero>>

\* lines 242-260: the scatter chart of the rows of one year; its three
\* selectors choose what is drawn, not whether
ScatterView ==
    /\ pc = "scatter"
    /\ shown' = shown \cup {"scatter"}
    /\ pc' = "line"
    /\ UNCHANGED <<file, df_all, departamento_seleccionado, start_year, end_year,
                   run_charts, df_plot_top15, div_by_zero,
                   distrito_analisis_seleccionado, anio_analisis_seleccionado>>

\* lines 264-282: the line chart of one district
LineView ==
    /\ pc = "line"
    /\ shown' = shown \cup {"line"}
    /\ pc' = "done"
    /\ UNCHANGED <<file, df_all, departamento_seleccionado, start_year, end_year,
                   run_charts, df_plot_top15, div_by_zero,
                   distrito_analisis_seleccionado, anio_analisis_seleccionado>>

\* a widget interaction reruns the script from the top
Rerun ==
    /\ pc = "done"
    /\ df_all' = <<>>
    /\ pc' = "start"
    /\ shown' = {}
    /\ departamento_seleccionado' = Unset
    /\ start_year' = NoYear
    /\ end_year' = NoYear
    /\ run_charts' = FALSE
    /\ df_plot_top15' = <<>>
    /\ div_by_zero' = FALSE
    /\ distrito_analisis_seleccionado' = Unset
    /\ anio_analisis_seleccionado' = NoYear
    /\ UNCHANGED file

Next ==
    \/ LoadData
    \/ SelectDepartamento
    \/ SelectYears
    \/ Gate
    \/ PieView
    \/ ScatterView
    \/ LineView
    \/ Rerun

Spec == Init /\ [][Next]_vars

\* the loader alone, on files that put every short text in a metric cell
InitLoad == IsCellFile(file) /\ PassStart
NextLoad == LoadData \/ Rerun
SpecLoad == InitLoad /\ [][NextLoad]_vars

(***************************************************************************)
(* Properties.                                                             *)
(***************************************************************************)
Top15Rows == 1..Len(df_plot_top15)
Top15Distritos == {df_plot_top15[i].Distrito : i \in Top15Rows}
FiltradoRows == {i \in 1..Len(df_all) : df_all[i].DEPARTAMENTO = departamento_seleccionado}

\* the districts of the selected department with a non-zero GPC_DOM in a row
\* of the start year and in a row of the end year
QualifyingDistritos ==
    {d \in {df_all[i].DISTRITO : i \in FiltradoRows} :
        /\ \E i \in FiltradoRows :
              /\ df_all[i].DISTRITO = d /\ df_all[i].ANIO = start_year
              /\ df_all[i].GPC_DOM.n # 0
        /\ \E j \in FiltradoRows :
              /\ df_all[j].DISTRITO = d /\ df_all[j].ANIO = end_year
              /\ df_all[j].GPC_DOM.n # 0}

\* the number of (start row, end row) pairs of one district with both values
\* non-zero
QualifyingPairs ==
    {<<i, j>> \in FiltradoRows \X FiltradoRows :
        /\ df_all[i].DISTRITO = df_all[j].DISTRITO
        /\ df_all[i].ANIO = start_year /\ df_all[j].ANIO = end_year
        /\ df_all[i].GPC_DOM.n # 0 /\ df_all[j].GPC_DOM.n # 0}

\* C1: the top-15 table has at most 15 rows and its percent changes never
\* increase from one row to the next.
C1_Top15BoundedAndSorted ==
    /\ Len(df_plot_top15) <= 15
    /\ \A i \in Top15Rows : i < Len(df_plot_top15) =>
          df_plot_top15[i].Incremento.n * df_plot_top15[i + 1].Incremento.d
              >= df_plot_top15[i + 1].Incremento.n * df_plot_top15[i].Incremento.d

\* more than 15 rows qualified, 15 were kept, with a strict descent among them
C1_Witness ==
    /\ run_charts
    /\ Cardinality(QualifyingPairs) > 15
    /\ Len(df_plot_top15) = 15
    /\ \E i \in Top15Rows : i < Len(df_plot_top15) /\
          df_plot_top15[i].Incremento.n * df_plot_top15[i + 1].Incremento.d
              > df_plot_top15[i + 1].Incremento.n * df_plot_top15[i].Incremento.d

\* row i is the only row of its district and year in the selected department
OnlyRowOfDistritoAndYear(i) ==
    \A j \in 1..Len(df_all) :
        (/\ df_all[j].DEPARTAMENTO = df_all[i].DEPARTAMENTO
         /\ df_all[j].DISTRITO = df_all[i].DISTRITO
         /\ df_all[j].ANIO = df_all[i].ANIO) => j = i

C3_PercentAndDistricts ==
    run_charts =>
        /\ \A k \in Top15Rows :
              LET r == df_plot_top15[k]
              IN  /\ r.Incremento.n * r.GPC_Start.n * r.GPC_End.d
                       = 100 * (r.GPC_End.n * r.GPC_Start.d - r.GPC_Start.n * r.GPC_End.d)
                           * r.Incremento.d
                  /\ \E i, j \in FiltradoRows :
                        /\ df_all[i].DISTRITO = r.Distrito /\ df_all[j].DISTRITO = r.Distrito
                        /\ df_all[i].ANIO = start_year /\ df_all[j].ANIO = end_year
                        /\ df_all[i].GPC_DOM = r.GPC_Start /\ df_all[j].GPC_DOM = r.GPC_End
        /\ Cardinality(QualifyingDistritos) <= 15 => Top15Distritos = QualifyingDistritos
        /\ file = ExampleFile =>
              /\ Len(df_plot_top15) = 1
              /\ df_plot_top15[1].Distrito = <<"A">>
              /\ df_plot_top15[1].Incremento.n = 100 * df_plot_top15[1].Incremento.d

\* C4: once the years are selected with start >= end, the pass shows the order
\* error, computes no variation table and renders no bar chart.
C4_InvalidOrderRejected ==
    ("sel_years" \in shown /\ start_year >= end_year) =>
        /\ "error_year_order" \in shown
        /\ "variation" \notin shown
        /\ "bar" \notin shown
        /\ df_plot_top15 = <<>>
        /\ ~run_charts

\* a finished pass in which the same year was selected twice
C4_Witness ==
    /\ pc = "done"
    /\ "sel_years" \in shown
    /\ start_year = end_year
    /\ "error_year_order" \in shown

\* C5: a pass that ends after a validation error (year order, fewer than two
\* years) has still rendered the detail, scatter and line views.
C5_OtherViewsUnaffected ==
    (pc = "done" /\ shown \cap {"error_year_order", "error_two_years"} # {}) =>
        /\ shown \cap {"pie", "pie_warning"} # {}
        /\ "scatter" \in shown
        /\ "line" \in shown

\* the file is absent, or one of its year cells is empty or holds a character
\* that is no digit
FileUnloadable ==
    \/ ~file.exists
    \/ \E i \in 1..Len(file.rows) : file.rows[i].PERIODO = <<>>
    \/ \E i \in 1..Len(file.rows) : \E k \in 1..Len(file.rows[i].PERIODO) :
          file.rows[i].PERIODO[k] \notin DigitSet

\* C6: after a load that failed (file absent, or a year cell that is no
\* integer) the table is empty, the failure is on the page and nothing else
\* is: the pass is over with no selector, no variation and no chart.
C6_LoadFailureHalts ==
    (pc # "start" /\ FileUnloadable) =>
        /\ df_all = <<>>
        /\ "error_load" \in shown
        /\ shown \subseteq {"error_load", "error_no_data"}
        /\ pc = "done"
        /\ departamento_seleccionado = Unset
        /\ start_year = NoYear /\ end_year = NoYear
        /\ ~run_charts
        /\ df_plot_top15 = <<>>

\* a pass ended by a file that exists, has a good first row and then fails in
\* cleaning
C6_Witness ==
    /\ pc = "done"
    /\ file.exists
    /\ Len(file.rows) = 2
    /\ "error_load" \in shown

DetailRowExists ==
    \E i \in 1..Len(df_all) :
        /\ df_all[i].DEPARTAMENTO = departamento_seleccionado
        /\ df_all[i].DISTRITO = distrito_analisis_seleccionado
        /\ df_all[i].ANIO = anio_analisis_seleccionado

\* C7: when the detail selection has no row the detail view shows the warning
\* and neither pie nor metrics, and a pass that showed the warning still
\* renders the scatter and the line view before it ends.
C7_DataGapNotFatal ==
    /\ (pc \in {"scatter", "line", "done"} /\ distrito_analisis_seleccionado # Unset
          /\ ~DetailRowExists) =>
          /\ "pie_warning" \in shown
          /\ "pie" \notin shown
          /\ "metrics" \notin shown
    /\ (pc \in {"scatter", "line", "done"} /\ distrito_analisis_seleccionado # Unset
          /\ DetailRowExists) =>
          /\ "pie_warning" \notin shown
          /\ "pie" \in shown
    /\ ("pie_warning" \in shown /\ pc = "line") => "scatter" \in shown
    /\ ("pie_warning" \in shown /\ pc = "done") => {"scatter", "line"} \subseteq shown
    /\ "pie_warning" \in shown => pc \in {"scatter", "line", "done"}

\* a finished pass whose detail selection had no row
C7_Witness ==
    /\ pc = "done"
    /\ distrito_analisis_seleccionado # Unset
    /\ ~DetailRowExists
    /\ {"pie_warning", "scatter", "line"} \subseteq shown

Range(s) == {s[i] : i \in 1..Len(s)}
MetricValues(r) ==
    {r.GPC_DOM, r.QRESIDUOS_DOM, r.QRESIDUOS_NO_DOM, r.RESIDUOS_MUNICIPALES}

\* C8: after a successful load every metric of every record is non-negative,
\* the cell "12,5" is stored as 12.5 and a GPC_DOM cell with a character that
\* belongs to no number is stored as zero.
C8_MetricsNonNegative ==
    (pc # "start" /\ df_all # <<>>) =>
        \A i \in 1..Len(df_all) :
            /\ \A v \in MetricValues(df_all[i]) : v.n >= 0 /\ v.d > 0
            /\ file.rows[i].GPC_DOM = <<"1", "2", ",", "5">> =>
                  10 * df_all[i].GPC_DOM.n = 125 * df_all[i].GPC_DOM.d
            /\ "x" \in Range(file.rows[i].GPC_DOM) => df_all[i].GPC_DOM.n = 0

\* the stable order of the unsorted variation table: j comes before i exactly
\* when its percent change is larger, or equal with j earlier in the table
StableRank(df, i) ==
    Cardinality({j \in 1..Len(df) :
        \/ df[j].Incremento.n * df[i].Incremento.d > df[i].Incremento.n * df[j].Incremento.d
        \/ /\ df[j].Incremento.n * df[i].Incremento.d = df[i].Incremento.n * df[j].Incremento.d
           /\ j < i}) + 1

\* C9: the variation table is the first 15 rows of the stable descending order
\* of the merged table: rows of equal percent change keep their merged order.
C9_StableTies ==
    run_charts =>
        LET df == WithIncremento(DfMerged(df_filtrado_por_departamento, start_year, end_year))
        IN  \A i \in 1..Len(df) :
                StableRank(df, i) <= Len(df_plot_top15) =>
                    df_plot_top15[StableRank(df, i)] = df[i]

\* C10: no district has two rows in the variation table.
C10_OneRowPerDistrict ==
    \A i, j \in Top15Rows : i # j => df_plot_top15[i].Distrito # df_plot_top15[j].Distrito

====
